---- MODULE Spec2Model ----
(***************************************************************************)
(* Model of the SQLite import-and-metrics pipeline of src/src/database.py  *)
(* (create_database, import_cryptocurrencies, import_price_history,        *)
(* calculate_metrics, verify_data, run_sample_queries, main).              *)
(* together with the collector of src/src/data_collection.py              *)
(* (collect_all_data) and the Market Dominance query of                   *)
(* src/src/analysis.py (run_all_analyses).                                *)
(*                                                                         *)
(* Prices and volumes are float64 columns in pandas.  The arithmetic of    *)
(* calculate_metrics is modelled bit for bit: a float64 is a record        *)
(*   [k, s, e, hi, lo]                                                     *)
(* k = "num" | "zero" | "inf" | "nan" | "null", s the sign bit, e the      *)
(* unbiased exponent, and hi / lo the upper 26 / lower 27 bits of the      *)
(* 53-bit significand (two fields because TLC integers are 32 bits wide).  *)
(***************************************************************************)
EXTENDS Integers, Sequences, FiniteSets, TLC

(***************************************************************************)
(* float64 arithmetic (IEEE 754 binary64, round to nearest, ties to even)  *)
(***************************************************************************)

\* width of the float64 significand (pandas reads price_usd / total_volume
\* as float64 columns)
MantBits == 53

\* the element of a one-element set.  A value is named by binding it in a
\* set constructor, The({F(x) : x \in {e}}), so that e is evaluated once.
The(S) == CHOOSE x \in S : TRUE

Zeros(n) == [i \in 1..n |-> 0]

\* a big-endian bit sequence without its leading zeros
StripZeros(b) ==
    IF \A i \in 1..Len(b) : b[i] = 0 THEN <<>>
    ELSE SubSeq(b, CHOOSE i \in 1..Len(b) :
                       b[i] = 1 /\ \A j \in 1..(i - 1) : b[j] = 0,
                Len(b))

\* big-endian bit sequence (at most 30 bits) -> natural number
RECURSIVE BitsToNat(_)
BitsToNat(b) ==
    IF b = <<>> THEN 0
    ELSE 2 * BitsToNat(SubSeq(b, 1, Len(b) - 1)) + b[Len(b)]

\* natural number -> big-endian bit sequence of width wd
NatToBits(n, wd) == [i \in 1..wd |-> (n \div (2 ^ (wd - i))) % 2]

\* b + 2^(Len(b) - idx) on a big-endian bit sequence (the carry runs
\* leftwards): [c |-> carry out, b |-> same width]
IncAt(b, idx) ==
    IF \A i \in 1..idx : b[i] = 1
    THEN [c |-> 1, b |-> [i \in 1..Len(b) |-> IF i <= idx THEN 0 ELSE b[i]]]
    ELSE [c |-> 0,
          b |-> [i \in 1..Len(b) |->
                    IF i > idx THEN b[i]
                    ELSE IF \E j \in (i + 1)..idx : b[j] = 0 THEN b[i]
                    ELSE 1 - b[i]]]

IncBits(b) == IncAt(b, Len(b))

\* b - 2^(Len(b) - idx), for b >= that power of two (the borrow runs leftwards)
SubOneAt(b, idx) ==
    [i \in 1..Len(b) |->
        IF i > idx THEN b[i]
        ELSE IF \E j \in (i + 1)..idx : b[j] = 1 THEN b[i]
        ELSE 1 - b[i]]

Complement(b) == [i \in 1..Len(b) |-> 1 - b[i]]

NaN == [k |-> "nan", s |-> 0, e |-> 0, hi |-> 0, lo |-> 0]
NULL == [k |-> "null", s |-> 0, e |-> 0, hi |-> 0, lo |-> 0]
Inf(s) == [k |-> "inf", s |-> s, e |-> 0, hi |-> 0, lo |-> 0]
Zero(s) == [k |-> "zero", s |-> s, e |-> 0, hi |-> 0, lo |-> 0]

\* the float64 with sign s, exponent e and the 53 significand bits b
Num(s, e, b) ==
    [k |-> "num", s |-> s, e |-> e,
     hi |-> BitsToNat(SubSeq(b, 1, 26)),
     lo |-> BitsToNat(SubSeq(b, 27, MantBits))]

Mant(d) == NatToBits(d.hi, 26) \o NatToBits(d.lo, MantBits - 26)

\* round to nearest, ties to even: b has no leading zero
RoundBits(sg, b, sc, sticky) ==
    IF Len(b) = 0 THEN Zero(sg)
    ELSE IF Len(b) <= MantBits
    THEN Num(sg, sc + Len(b) - 1, b \o Zeros(MantBits - Len(b)))
    ELSE IF ~(/\ b[MantBits + 1] = 1
              /\ \/ sticky
                 \/ \E i \in (MantBits + 2)..Len(b) : b[i] = 1
                 \/ b[MantBits] = 1)
    THEN Num(sg, sc + Len(b) - 1, SubSeq(b, 1, MantBits))
    ELSE The({IF inc.c = 1
              THEN Num(sg, sc + Len(b), <<1>> \o Zeros(MantBits - 1))
              ELSE Num(sg, sc + Len(b) - 1, inc.b) :
                 inc \in {IncBits(SubSeq(b, 1, MantBits))}})

\* the float64 nearest to (-1)^sg * N * 2^sc, N a big-endian bit sequence;
\* sticky: the exact value lies strictly above N * 2^sc (a division remainder)
Round(sg, N, sc, sticky) ==
    The({RoundBits(sg, b, sc, sticky) : b \in {StripZeros(N)}})

\* scale P / Q by powers of two until Q <= P < 2Q
RECURSIVE NormDiv(_, _, _)
NormDiv(P, Q, e) ==
    IF P < Q THEN NormDiv(2 * P, Q, e - 1)
    ELSE IF P >= 2 * Q THEN NormDiv(P, 2 * Q, e + 1)
    ELSE [P |-> P, Q |-> Q, e |-> e]

\* long division of r / Q (r < Q < 2^22), nine quotient bits a step
RECURSIVE DivStep(_, _, _)
DivStep(r, Q, steps) ==
    IF steps = 0 THEN [b |-> <<>>, r |-> r]
    ELSE The({[b |-> NatToBits((r * 512) \div Q, 9) \o rest.b, r |-> rest.r] :
                 rest \in {DivStep((r * 512) % Q, Q, steps - 1)}})

Abs(n) == IF n < 0 THEN -n ELSE n

\* a / b for two float64 values that hold the integers a and b
FDivInt(a, b) ==
    IF b = 0 THEN (IF a = 0 THEN NaN ELSE Inf(IF a < 0 THEN 1 ELSE 0))
    ELSE IF a = 0 THEN Zero(IF b < 0 THEN 1 ELSE 0)
    ELSE The({The({Round(IF (a < 0) = (b < 0) THEN 0 ELSE 1,
                         <<1>> \o q.b, nd.e - Len(q.b), q.r # 0) :
                      q \in {DivStep(nd.P - nd.Q, nd.Q, 6)}}) :
                 nd \in {NormDiv(Abs(a), Abs(b), 0)}})

\* v - 1
FSubOne(v) ==
    IF v.k = "nan" THEN NaN
    ELSE IF v.k = "inf" THEN v
    ELSE IF v.k = "zero" THEN Num(1, 0, <<1>> \o Zeros(MantBits - 1))
    ELSE IF v.s = 0
    THEN IF v.e >= 0
         THEN Round(0, SubOneAt(Mant(v), v.e + 1), v.e - (MantBits - 1), FALSE)
         ELSE The({Round(1, IncBits(neg).b, v.e - (MantBits - 1), FALSE) :
                      neg \in {Complement(Zeros(-v.e - 1) \o Mant(v))}})
    ELSE IF v.e >= 0
         THEN The({Round(1, <<inc.c>> \o inc.b, v.e - (MantBits - 1), FALSE) :
                      inc \in {IncAt(Mant(v), v.e + 1)}})
         ELSE Round(1, <<1>> \o Zeros(-v.e - 1) \o Mant(v),
                    v.e - (MantBits - 1), FALSE)

\* the three 18-bit limbs of a 54-bit sequence times 100, carries propagated
Mul100Limbs(m) ==
    The({The({NatToBits(BitsToNat(SubSeq(m, 1, 18)) * 100 + t1 \div 262144, 25)
                 \o NatToBits(t1 % 262144, 18) \o NatToBits(t0 % 262144, 18) :
                    t1 \in {BitsToNat(SubSeq(m, 19, 36)) * 100 + t0 \div 262144}}) :
            t0 \in {BitsToNat(SubSeq(m, 37, 54)) * 100}})

\* w * 100
FMul100(w) ==
    IF w.k # "num" THEN w
    ELSE The({Round(w.s, p, w.e - (MantBits - 1), FALSE) :
                 p \in {Mul100Limbs(<<0>> \o Mant(w))}})

(***************************************************************************)
(* Sequence helpers                                                        *)
(***************************************************************************)

\* the elements of s at the indices in idx, in index order (\o <<>> makes
\* TLC enumerate the sequence once instead of at every access)
Pick(s, idx) ==
    [k \in 1..Cardinality(idx) |->
        s[CHOOSE i \in idx : Cardinality({j \in idx : j <= i}) = k]] \o <<>>

\* stable sort of s by the strict order Less
StableSort(s, Less(_, _)) ==
    LET n  == Len(s)
        rk == [i \in 1..n |->
                 Cardinality({j \in 1..n :
                     \/ Less(s[j], s[i])
                     \/ (~Less(s[i], s[j]) /\ j < i)}) + 1] \o <<>>
    IN  [k \in 1..n |-> s[CHOOSE i \in 1..n : rk[i] = k]] \o <<>>

RECURSIVE Flatten(_)
Flatten(ss) == IF ss = <<>> THEN <<>> ELSE Head(ss) \o Flatten(Tail(ss))

(***************************************************************************)
(* The store: data/crypto_market.db with the three tables of               *)
(* sql/schema.sql.  A table is the sequence of its rows in insertion       *)
(* order.                                                                  *)
(***************************************************************************)

\* crypto ids, in the order SQLite sorts their text (ORDER BY crypto_id)
CryptoIds == <<"algorand", "binancecoin", "bitcoin", "cosmos", "ethereum">>

Rank(c) == CHOOSE i \in 1..Len(CryptoIds) : CryptoIds[i] = c

NoTables == [cryptocurrencies |-> <<>>, price_history |-> <<>>, metrics |-> <<>>]

\* no database file
NoDb == [file |-> "absent", tables |-> NoTables]

\* a database file holding the empty schema
EmptyDb == [file |-> "ready", tables |-> NoTables]

PriceKey(r) == <<r.crypto_id, r.date>>

\* sql/schema.sql: cryptocurrencies(crypto_id PRIMARY KEY),
\* price_history UNIQUE(crypto_id, date), metrics UNIQUE(crypto_id, date)
AssetKeysUnique(rows) ==
    \A i, j \in 1..Len(rows) : rows[i].crypto_id = rows[j].crypto_id => i = j

DatedKeysUnique(rows) ==
    \A i, j \in 1..Len(rows) : PriceKey(rows[i]) = PriceKey(rows[j]) => i = j

(***************************************************************************)
(* create_database                                                         *)
(***************************************************************************)

\* create_database without the removal of the old file
KeepOldDb(store) == store

\* os.path.exists(DB_PATH) / os.remove(DB_PATH)
RemoveOldDb(store) == NoDb

\* sqlite3.connect creates the file when there is none; it opens an
\* existing file with whatever it holds
Connect(store) == IF store.file = "absent" THEN [store EXCEPT !.file = "blank"] ELSE store

\* executescript(schema_sql): CREATE TABLE on a fresh file
ApplySchema(store) == [store EXCEPT !.file = "ready"]

create_database(store, schema_ok) ==
    LET conn == Connect(RemoveOldDb(store))
    IN  IF ~schema_ok
        THEN [ok |-> FALSE, err |-> "FileNotFoundError", db |-> conn]
        ELSE [ok |-> TRUE, err |-> "none", db |-> ApplySchema(conn)]

(***************************************************************************)
(* import_cryptocurrencies                                                 *)
(***************************************************************************)

InfoColumns == {"id", "symbol", "name"}

\* df[["id", "symbol", "name"]] renamed to crypto_id, symbol, name
InfoFrame(rows) ==
    [i \in 1..Len(rows) |->
        [crypto_id |-> rows[i].id, symbol |-> rows[i].symbol, name |-> rows[i].name]]

import_cryptocurrencies(store, csv) ==
    IF ~csv.exists
    THEN [ok |-> FALSE, err |-> "FileNotFoundError", db |-> store]
    ELSE IF ~(InfoColumns \subseteq csv.columns)
    THEN [ok |-> FALSE, err |-> "KeyError", db |-> store]
    ELSE LET all == store.tables.cryptocurrencies \o InfoFrame(csv.rows)
         IN  IF ~AssetKeysUnique(all)
             THEN [ok |-> FALSE, err |-> "IntegrityError", db |-> store]
             ELSE [ok |-> TRUE, err |-> "none",
                   db |-> [store EXCEPT !.tables.cryptocurrencies = all]]

(***************************************************************************)
(* import_price_history                                                    *)
(***************************************************************************)

HistoryColumns == {"crypto_id", "date", "price", "market_cap", "volume"}

\* pd.to_datetime(...).dt.date: the calendar day of a timestamp
ToDate(d) == d.day

\* df[[...]] with the columns renamed and the date converted
HistoryFrame(rows) ==
    [i \in 1..Len(rows) |->
        [crypto_id |-> rows[i].crypto_id, date |-> ToDate(rows[i].date),
         price_usd |-> rows[i].price, market_cap |-> rows[i].market_cap,
         total_volume |-> rows[i].volume]]

\* import_price_history without the drop_duplicates call
KeepDuplicates(frame) == frame

\* drop_duplicates(..., keep="first")
DropDuplicatesKeepFirst(frame) ==
    Pick(frame, {i \in 1..Len(frame) :
                    \A j \in 1..(i - 1) : PriceKey(frame[j]) # PriceKey(frame[i])})

\* drop_duplicates(subset=["crypto_id", "date"], keep="last")
DropDuplicates(frame) ==
    Pick(frame, {i \in 1..Len(frame) :
                    \A j \in (i + 1)..Len(frame) :
                        PriceKey(frame[j]) # PriceKey(frame[i])})

\* import_price_history inserting row by row, converting each date as it goes:
\* the rows before the first unparseable date are written
import_price_history_rowwise(store, csv) ==
    IF ~csv.exists
    THEN [ok |-> FALSE, err |-> "FileNotFoundError", db |-> store, df |-> <<>>]
    ELSE IF ~(HistoryColumns \subseteq csv.columns)
    THEN [ok |-> FALSE, err |-> "KeyError", db |-> store, df |-> <<>>]
    ELSE LET bad  == {i \in 1..Len(csv.rows) : ~csv.rows[i].date.ok}
             good == IF bad = {} THEN csv.rows
                     ELSE SubSeq(csv.rows, 1,
                                 (CHOOSE i \in bad : \A j \in bad : i <= j) - 1)
             df_insert == DropDuplicates(HistoryFrame(good))
             all == store.tables.price_history \o df_insert
         IN  IF ~DatedKeysUnique(all)
             THEN [ok |-> FALSE, err |-> "IntegrityError", db |-> store, df |-> <<>>]
             ELSE [ok |-> bad = {},
                   err |-> IF bad = {} THEN "none" ELSE "ValueError",
                   db |-> [store EXCEPT !.tables.price_history = all],
                   df |-> IF bad = {} THEN df_insert ELSE <<>>]

import_price_history(store, csv) ==
    IF ~csv.exists
    THEN [ok |-> FALSE, err |-> "FileNotFoundError", db |-> store, df |-> <<>>]
    ELSE IF ~(HistoryColumns \subseteq csv.columns)
    THEN [ok |-> FALSE, err |-> "KeyError", db |-> store, df |-> <<>>]
    ELSE IF \E i \in 1..Len(csv.rows) : ~csv.rows[i].date.ok
    THEN [ok |-> FALSE, err |-> "ValueError", db |-> store, df |-> <<>>]
    ELSE LET df_insert == DropDuplicates(HistoryFrame(csv.rows))
             all == store.tables.price_history \o df_insert
         IN  IF ~DatedKeysUnique(all)
             THEN [ok |-> FALSE, err |-> "IntegrityError", db |-> store, df |-> <<>>]
             ELSE [ok |-> TRUE, err |-> "none",
                   db |-> [store EXCEPT !.tables.price_history = all],
                   df |-> df_insert]

(***************************************************************************)
(* calculate_metrics                                                       *)
(***************************************************************************)

\* rolling(window=7) and rolling(window=30)
Window7 == 7
Window30 == 30

\* SELECT ... FROM price_history ORDER BY crypto_id, date
KeyLess(a, b) ==
    \/ Rank(a.crypto_id) < Rank(b.crypto_id)
    \/ (a.crypto_id = b.crypto_id /\ a.date < b.date)

DateLess(a, b) == a.date < b.date

ReadPrices(store) == StableSort(store.tables.price_history, KeyLess)

\* df["crypto_id"].unique(): the ids in order of first appearance
UniqueIds(df) ==
    LET ids == [i \in 1..Len(df) |-> df[i].crypto_id]
    IN  Pick(ids, {i \in 1..Len(df) : \A j \in 1..(i - 1) : ids[j] # ids[i]})

\* Series.pct_change() * 100 on a column of integers-as-floats: the first
\* element has no predecessor (NaN), the others are cur / prev - 1
PctChange(col) ==
    [i \in 1..Len(col) |->
        IF i = 1 THEN NaN
        ELSE The({FMul100(y) :
                     y \in {FSubOne(x) : x \in {FDivInt(col[i], col[i - 1])}}})]
    \o <<>>

\* pd.notna
NotNa(x) == x.k # "nan" /\ x.k # "null"

\* rolling windows drop NaN and turn +-inf into NaN before counting
Observed(x) == x.k = "num" \/ x.k = "zero"

\* Series.rolling(window=win).std() at position i: NaN unless the window
\* holds win observed values (min_periods defaults to the window).  The
\* standard deviation itself is kept symbolic: pandas computes it with an
\* online update over the series, so it is a function of the window size
\* and of the series up to i.
RollingStd(col, win, i) ==
    IF i >= win /\ \A j \in (i - win + 1)..i : Observed(col[j])
    THEN [k |-> "std", win |-> win, upto |-> SubSeq(col, 1, i)]
    ELSE NaN

\* DataFrame.where(pd.notna(df), None): NaN becomes NULL in SQLite
NanToNone(x) == IF x.k = "nan" THEN NULL ELSE x

\* the loop body with changes taken over elapsed calendar time: a change
\* exists only against an observation of the day before
CryptoMetricsCalendar(df, crypto_id) ==
    LET df_crypto == StableSort(SelectSeq(df, LAMBDA r : r.crypto_id = crypto_id),
                                DateLess)
        n      == Len(df_crypto)
        daily(col) == [i \in 1..n |->
                         IF i > 1 /\ df_crypto[i].date = df_crypto[i - 1].date + 1
                         THEN col[i] ELSE NaN]
        ret    == daily(PctChange([i \in 1..n |-> df_crypto[i].price_usd]))
        volchg == daily(PctChange([i \in 1..n |-> df_crypto[i].total_volume]))
        rows   == [i \in 1..n |->
                     [crypto_id |-> crypto_id,
                      date |-> df_crypto[i].date,
                      daily_return |-> ret[i],
                      volatility_7d |-> RollingStd(ret, Window7, i),
                      volatility_30d |-> RollingStd(ret, Window30, i),
                      volume_change_24h |-> volchg[i]]]
    IN  Pick(rows, {i \in 1..n : NotNa(ret[i])})

\* the loop body without the selection df[df["crypto_id"] == crypto_id]: the
\* changes run over the whole frame and the rows of crypto_id are kept
CryptoMetricsShared(df, crypto_id) ==
    LET n      == Len(df)
        ret    == PctChange([i \in 1..n |-> df[i].price_usd])
        volchg == PctChange([i \in 1..n |-> df[i].total_volume])
        rows   == [i \in 1..n |->
                     [crypto_id |-> crypto_id,
                      date |-> df[i].date,
                      daily_return |-> ret[i],
                      volatility_7d |-> RollingStd(ret, Window7, i),
                      volatility_30d |-> RollingStd(ret, Window30, i),
                      volume_change_24h |-> volchg[i]]]
    IN  Pick(rows, {i \in 1..n : df[i].crypto_id = crypto_id /\ NotNa(ret[i])})

\* the metrics rows of one crypto (lines 118-143)
CryptoMetrics(df, crypto_id) ==
    LET df_crypto == StableSort(SelectSeq(df, LAMBDA r : r.crypto_id = crypto_id),
                                DateLess)
        n      == Len(df_crypto)
        ret    == PctChange([i \in 1..n |-> df_crypto[i].price_usd])
        volchg == PctChange([i \in 1..n |-> df_crypto[i].total_volume])
        rows   == [i \in 1..n |->
                     [crypto_id |-> crypto_id,
                      date |-> df_crypto[i].date,
                      daily_return |-> ret[i],
                      volatility_7d |-> RollingStd(ret, Window7, i),
                      volatility_30d |-> RollingStd(ret, Window30, i),
                      volume_change_24h |-> volchg[i]]]
    IN  Pick(rows, {i \in 1..n : NotNa(ret[i])})

MetricsFrame(df) ==
    LET ids  == UniqueIds(df)
        list == Flatten([k \in 1..Len(ids) |-> CryptoMetrics(df, ids[k])])
    IN  [i \in 1..Len(list) |->
            [list[i] EXCEPT !.volatility_7d = NanToNone(@),
                            !.volatility_30d = NanToNone(@),
                            !.volume_change_24h = NanToNone(@)]]

\* calculate_metrics writing the frame it read back to price_history
\* (to_sql(..., if_exists="replace")) besides inserting the metrics
calculate_metrics_rewriting(store) ==
    LET df_metrics == MetricsFrame(ReadPrices(store))
        all == store.tables.metrics \o df_metrics
    IN  IF ~DatedKeysUnique(all)
        THEN [ok |-> FALSE, err |-> "IntegrityError", db |-> store]
        ELSE [ok |-> TRUE, err |-> "none",
              db |-> [store EXCEPT !.tables.metrics = all,
                                   !.tables.price_history = ReadPrices(store)]]

calculate_metrics(store) ==
    LET df_metrics == MetricsFrame(ReadPrices(store))
        all == store.tables.metrics \o df_metrics
    IN  IF ~DatedKeysUnique(all)
        THEN [ok |-> FALSE, err |-> "IntegrityError", db |-> store]
        ELSE [ok |-> TRUE, err |-> "none",
              db |-> [store EXCEPT !.tables.metrics = all]]

(***************************************************************************)
(* verify_data                                                             *)
(***************************************************************************)

\* SELECT COUNT(*) of the three tables, then the closing line, which is
\* printed unconditionally
verify_data(store) ==
    [cryptocurrencies |-> Len(store.tables.cryptocurrencies),
     price_history |-> Len(store.tables.price_history),
     metrics |-> Len(store.tables.metrics),
     verdict |-> "operational"]

NoReport == [cryptocurrencies |-> 0, price_history |-> 0, metrics |-> 0,
             verdict |-> "none"]

(***************************************************************************)
(* The latest-date queries of run_sample_queries and run_all_analyses      *)
(***************************************************************************)

\* LIMIT 5
Limit == 5

\* a query that was not run
NoResult == <<[symbol |-> "none"]>>

\* SELECT MAX(date) FROM price_history (no row compares equal to the NULL of
\* an empty table)
IsMaxDate(store, d) ==
    \A k \in 1..Len(store.tables.price_history) :
        store.tables.price_history[k].date <= d

\* FROM price_history ph JOIN cryptocurrencies c ON ph.crypto_id = c.crypto_id
\* WHERE ph.date = (SELECT MAX(date) FROM price_history)
Latest(store) ==
    {[crypto_id |-> store.tables.cryptocurrencies[a].crypto_id,
      symbol |-> store.tables.cryptocurrencies[a].symbol,
      market_cap |-> store.tables.price_history[p].market_cap] :
        <<a, p>> \in
          {x \in (1..Len(store.tables.cryptocurrencies))
                    \X (1..Len(store.tables.price_history)) :
              /\ store.tables.cryptocurrencies[x[1]].crypto_id
                   = store.tables.price_history[x[2]].crypto_id
              /\ IsMaxDate(store, store.tables.price_history[x[2]].date)}}

\* SUM(ph.market_cap) OVER ()
RECURSIVE SumCaps(_)
SumCaps(S) ==
    IF S = {} THEN 0
    ELSE The({x.market_cap + SumCaps(S \ {x}) : x \in {CHOOSE y \in S : TRUE}})

\* ROUND(v, 2) of a float64 0 <= v <= 100, in hundredths: the digits of the
\* binary value, half a hundredth rounding up
Round2(v) ==
    IF v.k # "num" THEN 0
    ELSE IF MantBits - 1 - v.e > 61 THEN 0
    ELSE The({BitsToNat(SubSeq(b, 1, 61 - (MantBits - 1 - v.e)))
                + (IF MantBits - 1 - v.e = 0 THEN 0
                   ELSE b[61 - (MantBits - 1 - v.e) + 1]) :
                 b \in {Mul100Limbs(<<0>> \o Mant(v))}})

\* ROUND((market_cap / total_cap) * 100, 2); a division by zero is NULL
DominancePct(market_cap, total_cap) ==
    IF total_cap = 0 THEN [null |-> TRUE, hundredths |-> 0]
    ELSE [null |-> FALSE,
          hundredths |-> The({Round2(FMul100(q)) :
                                q \in {FDivInt(market_cap, total_cap)}})]

\* ORDER BY sort_key DESC: every order of the rows that is descending in
\* sort_key (the order of rows with equal keys is not specified)
RECURSIVE Descending(_)
Descending(S) ==
    IF S = {} THEN {<<>>}
    ELSE UNION {{<<x>> \o rest : rest \in Descending(S \ {x})} :
                  x \in {y \in S : \A z \in S : y.sort_key >= z.sort_key}}

FirstRows(s) == SubSeq(s, 1, IF Len(s) < Limit THEN Len(s) ELSE Limit)

Project(s) ==
    [i \in 1..Len(s) |->
        [crypto_id |-> s[i].crypto_id, symbol |-> s[i].symbol,
         market_cap |-> s[i].market_cap, dominance_pct |-> s[i].dominance_pct]]

\* the results the "Market Dominance" query of run_all_analyses can give.
\* The rows carry the joined observation (crypto_id, market_cap); the
\* column cap_milliards derived from market_cap is left out.
MarketDominance(store) ==
    {Project(FirstRows(s)) :
        s \in Descending(
            {[crypto_id |-> x.crypto_id, symbol |-> x.symbol,
              market_cap |-> x.market_cap,
              dominance_pct |-> pct,
              \* NULL sorts after every number in descending order
              sort_key |-> IF pct.null THEN -1 ELSE pct.hundredths] :
                <<x, pct>> \in
                  {<<y, DominancePct(y.market_cap, SumCaps(Latest(store)))>> :
                      y \in Latest(store)}})}

\* the results the first query of run_sample_queries can give (ORDER BY
\* ph.market_cap DESC LIMIT 5); the derived columns are left out
TopByMarketCap(store) ==
    {[i \in 1..Len(FirstRows(s)) |->
         [crypto_id |-> s[i].crypto_id, symbol |-> s[i].symbol,
          market_cap |-> s[i].market_cap]] :
        s \in Descending(
            {[crypto_id |-> x.crypto_id, symbol |-> x.symbol,
              market_cap |-> x.market_cap, sort_key |-> x.market_cap] :
                x \in Latest(store)})}

(***************************************************************************)
(* Raw inputs: data/raw/crypto_info.csv and data/raw/price_history.csv as  *)
(* the collector may leave them, and sql/schema.sql                        *)
(***************************************************************************)

\* longest raw history drawn from RawRecords
MaxLen == 3
\* longest single-crypto series with freely chosen prices
MaxSeries == 3
\* the long series have Window7 + d and Window30 + d observations, d <= MaxExtra
MaxExtra == 2
\* database.main is invoked at most MaxRuns times on the same files
MaxRuns == 2

Stamp(day, tod) == [ok |-> TRUE, day |-> day, tod |-> tod]
BadStamp == [ok |-> FALSE, day |-> 0, tod |-> 0]

Raw(c, date, price, cap, vol) ==
    [crypto_id |-> c, date |-> date, price |-> price, market_cap |-> cap,
     volume |-> vol]

\* records with repeated (crypto_id, day) keys, times of day, zero prices
\* and volumes, and one date that does not parse
RawRecords ==
    { Raw("bitcoin", Stamp(1, 0), 100, 900, 50),
      Raw("bitcoin", Stamp(1, 1), 110, 910, 60),
      Raw("bitcoin", Stamp(2, 0), 99, 920, 0),
      Raw("ethereum", Stamp(1, 0), 0, 300, 0),
      Raw("ethereum", Stamp(2, 0), 0, 310, 40),
      Raw("ethereum", Stamp(2, 1), 110, 0, 40),
      Raw("bitcoin", BadStamp, 100, 900, 50) }

ShortHistories == UNION {[1..n -> RawRecords] : n \in 0..MaxLen}

PriceSet == {0, 99, 100, 110}

\* one crypto on consecutive days
Series(c, prices) ==
    [i \in 1..Len(prices) |->
        Raw(c, Stamp(i, 0), prices[i], 1000 + prices[i], 10 * i)]

SeriesHistories ==
    {Series("bitcoin", p) : p \in UNION {[1..n -> PriceSet] : n \in 1..MaxSeries}}

\* the prices 100, 110, 99, 100, 110, 99, ... with a zero at position z
\* (z = 0: no zero)
Cycle(n, z) ==
    [i \in 1..n |-> IF i = z THEN 0
                    ELSE IF i % 3 = 1 THEN 100 ELSE IF i % 3 = 2 THEN 110 ELSE 99]

LongHistories ==
    {Series("bitcoin", Cycle(w + d, z)) :
        w \in {Window7, Window30}, d \in 0..MaxExtra, z \in 0..3}

\* market caps of two cryptos on the same day: zero, far apart, and so close
\* that the percentages of the total agree to two decimals
CapSet == {0, 300, 30000, 30001}

DominanceHistories ==
    {<<Raw("bitcoin", Stamp(1, 0), 100, a, 50),
       Raw("ethereum", Stamp(1, 0), 110, b, 40)>> : a, b \in CapSet}

Csv(cols, rows) == [exists |-> TRUE, columns |-> cols, rows |-> rows]
NoFile == [exists |-> FALSE, columns |-> {}, rows |-> <<>>]

Info(id, symbol, name) == [id |-> id, symbol |-> symbol, name |-> name]
Btc == Info("bitcoin", "BTC", "Bitcoin")
Eth == Info("ethereum", "ETH", "Ethereum")

GoodInfo == Csv(InfoColumns, <<Btc, Eth>>)

InfoFiles ==
    { GoodInfo, NoFile, Csv({"id", "name"}, <<Btc, Eth>>),
      Csv(InfoColumns, <<>>), Csv(InfoColumns, <<Btc>>),
      Csv(InfoColumns, <<Btc, Eth, Btc>>) }

HistoryFile(rows) == Csv(HistoryColumns, rows)

BrokenHistoryFiles ==
    { NoFile,
      Csv(HistoryColumns \ {"volume"}, <<>>),
      HistoryFile(<<>>),
      HistoryFile(Series("bitcoin", <<100, 110, 99>>)) }

\* the files one behaviour runs on
Scenarios ==
    {[schema_ok |-> TRUE, info |-> GoodInfo, history |-> HistoryFile(rows)] :
        rows \in ShortHistories \cup SeriesHistories \cup LongHistories
                 \cup DominanceHistories}
    \cup
    {[schema_ok |-> s, info |-> i, history |-> h] :
        s \in BOOLEAN, i \in InfoFiles, h \in BrokenHistoryFiles}

(***************************************************************************)
(* data_collection.py: collect_all_data fetches the cryptos of TOP_CRYPTOS *)
(* from the CoinGecko API and writes data/raw/crypto_info.csv,             *)
(* data/raw/price_history.csv and data/raw/metadata.json                   *)
(***************************************************************************)

TOP_CRYPTOS == <<"bitcoin", "ethereum", "binancecoin", "algorand", "cosmos">>

DAYS_OF_HISTORY == 90

\* the upstream service answers a market_chart request with ApiDays daily
\* points and one more point for the current time of the last day
ApiDays == 2

\* what a request can end in: an answer, or a requests RequestException
Outcomes == {"ok", "RequestException"}

\* return None
None == [id |-> "None"]

\* pd.DataFrame()
EmptyFrame == <<>>

ApiSymbol(crypto_id) ==
    CASE crypto_id = "bitcoin" -> "btc"
      [] crypto_id = "ethereum" -> "eth"
      [] crypto_id = "binancecoin" -> "bnb"
      [] crypto_id = "algorand" -> "algo"
      [] crypto_id = "cosmos" -> "atom"

\* str.upper on the symbols of the service
Upper(symbol) ==
    CASE symbol = "btc" -> "BTC"
      [] symbol = "eth" -> "ETH"
      [] symbol = "bnb" -> "BNB"
      [] symbol = "algo" -> "ALGO"
      [] symbol = "atom" -> "ATOM"

\* the answer of /coins/{crypto_id}
ApiCoin(crypto_id) ==
    [id |-> crypto_id, symbol |-> ApiSymbol(crypto_id), name |-> crypto_id,
     market_cap_rank |-> Rank(crypto_id),
     current_price |-> 100 + Rank(crypto_id),
     market_cap |-> 1000 * Rank(crypto_id),
     total_volume |-> 10 * Rank(crypto_id)]

\* the answer of /coins/{crypto_id}/market_chart: <<timestamp, value>> items
ApiChart(crypto_id) ==
    [d \in 1..(ApiDays + 1) |->
        [timestamp |-> IF d > ApiDays THEN Stamp(ApiDays, 1) ELSE Stamp(d, 0),
         price |-> 100 * Rank(crypto_id) + d,
         market_cap |-> 1000 * Rank(crypto_id) + d,
         volume |-> 10 * d]]

get_crypto_info(crypto_id, outcome) ==
    IF outcome = "ok"
    THEN [id |-> ApiCoin(crypto_id).id,
          symbol |-> Upper(ApiCoin(crypto_id).symbol),
          name |-> ApiCoin(crypto_id).name,
          market_cap_rank |-> ApiCoin(crypto_id).market_cap_rank,
          current_price |-> ApiCoin(crypto_id).current_price,
          market_cap |-> ApiCoin(crypto_id).market_cap,
          total_volume |-> ApiCoin(crypto_id).total_volume]
    ELSE None

get_historical_prices(crypto_id, days, outcome) ==
    IF outcome = "ok"
    THEN [d \in 1..Len(ApiChart(crypto_id)) |->
            [crypto_id |-> crypto_id,
             date |-> ToDate(ApiChart(crypto_id)[d].timestamp),
             price |-> ApiChart(crypto_id)[d].price,
             market_cap |-> ApiChart(crypto_id)[d].market_cap,
             volume |-> ApiChart(crypto_id)[d].volume]]
    ELSE EmptyFrame

CollectedColumns ==
    {"id", "symbol", "name", "market_cap_rank", "current_price", "market_cap",
     "total_volume"}

\* df_info.to_csv(info_path, index=False)
InfoCsv(info_list) == Csv(CollectedColumns, info_list)

\* pd.concat(historical_data_list).to_csv(historical_path, index=False): a
\* date is written as its ISO text, which pd.to_datetime reads as that day
HistoryCsv(frames) ==
    HistoryFile([i \in 1..Len(Flatten(frames)) |->
                    [Flatten(frames)[i] EXCEPT !.date = Stamp(@, 0)]])

NoMetadata == [cryptos_count |-> 0, days_of_history |-> 0, data_points |-> 0,
               cryptos |-> <<>>]

\* data/raw before the first collection
NoFiles == [schema_ok |-> TRUE, info |-> NoFile, history |-> NoFile]

(***************************************************************************)
(* database.main                                                           *)
(***************************************************************************)

VARIABLES
    fs,         \* the input files: [schema_ok, info, history]
    db,         \* data/crypto_market.db
    pc,         \* the stage main is about to call, or "done" / "failed"
    err,        \* the exception main re-raised, "none" if none
    log,        \* the stages called in this run: <<[stage, ok], ...>>
    df_insert,  \* the frame import_price_history returned
    report,     \* what verify_data printed
    old_db,     \* the store as the last create_database call found it
    run,        \* number of invocations of main so far
    top5,       \* the rows the first query of run_sample_queries printed
    dominance,  \* the rows the Market Dominance query of analysis.py printed
    cpc,        \* collect_all_data: "idle", "loop", "save", "returned", "raised"
    visited,    \* the number of cryptos of TOP_CRYPTOS the loop has processed
    crypto_info_list,
    historical_data_list,
    metadata    \* data/raw/metadata.json

\* the state of data_collection.py
cvars == <<cpc, visited, crypto_info_list, historical_data_list, metadata>>

vars == <<fs, db, pc, err, log, df_insert, report, old_db, run, top5, dominance,
          cvars>>

Stages ==
    << "create_database", "import_cryptocurrencies", "import_price_history",
       "calculate_metrics", "verify_data", "run_sample_queries" >>

StageIndex(stage) == CHOOSE i \in 1..Len(Stages) : Stages[i] = stage

\* main calling calculate_metrics before import_price_history
NextStageMetricsFirst(stage) ==
    CASE stage = "import_cryptocurrencies" -> "calculate_metrics"
      [] stage = "calculate_metrics" -> "import_price_history"
      [] stage = "import_price_history" -> "verify_data"
      [] stage = "run_sample_queries" -> "done"
      [] OTHER -> Stages[StageIndex(stage) + 1]

\* the statement of main that follows the call of stage
NextStage(stage) ==
    IF StageIndex(stage) = Len(Stages) THEN "done"
    ELSE Stages[StageIndex(stage) + 1]

\* an except block that prints the error and carries on with the next stage
MainExceptSwallow(stage, e) == pc' = Stages[StageIndex(stage) + 1] /\ err' = "none"

\* except Exception as e: print(...); raise
MainExcept(stage, e) == pc' = "failed" /\ err' = e

\* the call of one stage inside main's try block
Call(stage, result) ==
    /\ log' = Append(log, [stage |-> stage, ok |-> result.ok])
    /\ IF result.ok
       THEN pc' = NextStage(stage) /\ err' = "none"
       ELSE MainExcept(stage, result.err)

Init ==
    /\ fs \in Scenarios
    /\ db = NoDb
    /\ pc = "create_database"
    /\ err = "none"
    /\ log = <<>>
    /\ df_insert = <<>>
    /\ report = NoReport
    /\ old_db = NoDb
    /\ run = 1
    /\ top5 = NoResult
    /\ dominance = NoResult
    /\ cpc = "idle"
    /\ visited = 0
    /\ crypto_info_list = <<>>
    /\ historical_data_list = <<>>
    /\ metadata = NoMetadata

CreateDatabase ==
    /\ pc = "create_database"
    /\ LET r == create_database(db, fs.schema_ok)
       IN  db' = r.db /\ Call("create_database", r)
    /\ old_db' = db
    /\ UNCHANGED <<fs, df_insert, report, run, top5, dominance, cvars>>

ImportCryptocurrencies ==
    /\ pc = "import_cryptocurrencies"
    /\ LET r == import_cryptocurrencies(db, fs.info)
       IN  db' = r.db /\ Call("import_cryptocurrencies", r)
    /\ UNCHANGED <<fs, df_insert, report, old_db, run, top5, dominance, cvars>>

ImportPriceHistory ==
    /\ pc = "import_price_history"
    /\ LET r == import_price_history(db, fs.history)
       IN  db' = r.db /\ df_insert' = r.df /\ Call("import_price_history", r)
    /\ UNCHANGED <<fs, report, old_db, run, top5, dominance, cvars>>

CalculateMetrics ==
    /\ pc = "calculate_metrics"
    /\ LET r == calculate_metrics(db)
       IN  db' = r.db /\ Call("calculate_metrics", r)
    /\ UNCHANGED <<fs, df_insert, report, old_db, run, top5, dominance, cvars>>

VerifyData ==
    /\ pc = "verify_data"
    /\ report' = verify_data(db)
    /\ Call("verify_data", [ok |-> TRUE, err |-> "none"])
    /\ UNCHANGED <<fs, db, df_insert, old_db, run, top5, dominance, cvars>>

RunSampleQueries ==
    /\ pc = "run_sample_queries"
    /\ top5' \in TopByMarketCap(db)
    /\ Call("run_sample_queries", [ok |-> TRUE, err |-> "none"])
    /\ UNCHANGED <<fs, db, df_insert, report, old_db, run, dominance, cvars>>

\* python src/database.py is started again on the same files
Restart ==
    /\ pc \in {"done", "failed"}
    /\ run < MaxRuns
    /\ run' = run + 1
    /\ pc' = "create_database"
    /\ err' = "none"
    /\ log' = <<>>
    /\ df_insert' = <<>>
    /\ report' = NoReport
    /\ top5' = NoResult
    /\ dominance' = NoResult
    /\ UNCHANGED <<fs, db, old_db, cvars>>

\* python src/analysis.py on the database a complete run of database.py
\* left: the Market Dominance query of run_all_analyses
RunAllAnalyses ==
    /\ pc = "done"
    /\ dominance = NoResult
    /\ dominance' \in MarketDominance(db)
    /\ UNCHANGED <<fs, db, pc, err, log, df_insert, report, old_db, run, top5, cvars>>

Next ==
    \/ CreateDatabase
    \/ ImportCryptocurrencies
    \/ ImportPriceHistory
    \/ CalculateMetrics
    \/ VerifyData
    \/ RunSampleQueries
    \/ RunAllAnalyses
    \/ Restart

Spec == Init /\ [][Next]_vars

(***************************************************************************)
(* data_collection.py followed by database.py on the files it wrote       *)
(***************************************************************************)

dbvars == <<db, err, log, df_insert, report, old_db, run, top5, dominance>>

CollectorInit ==
    /\ fs = NoFiles
    /\ db = NoDb
    /\ pc = "waiting"
    /\ err = "none"
    /\ log = <<>>
    /\ df_insert = <<>>
    /\ report = NoReport
    /\ old_db = NoDb
    /\ run = 1
    /\ top5 = NoResult
    /\ dominance = NoResult
    /\ cpc = "loop"
    /\ visited = 0
    /\ crypto_info_list = <<>>
    /\ historical_data_list = <<>>
    /\ metadata = NoMetadata

\* one pass of the loop over TOP_CRYPTOS (lines 133-150)
Collect ==
    /\ cpc = "loop"
    /\ \E info_outcome, historical_outcome \in Outcomes :
          LET crypto_id  == TOP_CRYPTOS[visited + 1]
              info       == get_crypto_info(crypto_id, info_outcome)
              historical == get_historical_prices(crypto_id, DAYS_OF_HISTORY,
                                                  historical_outcome)
          IN  /\ crypto_info_list' =
                    IF info # None THEN Append(crypto_info_list, info)
                    ELSE crypto_info_list
              /\ historical_data_list' =
                    IF historical # EmptyFrame
                    THEN Append(historical_data_list, historical)
                    ELSE historical_data_list
    /\ visited' = visited + 1
    /\ cpc' = IF visited + 1 = Len(TOP_CRYPTOS) THEN "save" ELSE "loop"
    /\ UNCHANGED <<fs, pc, metadata, dbvars>>

\* the rest of collect_all_data (lines 157-191): the two files are written
\* only from a list that is not empty, metadata.json always; the return
\* statement reads df_info and df_historical, which are bound only where
\* the file was written
Save ==
    /\ cpc = "save"
    /\ fs' = [fs EXCEPT
                !.info = IF crypto_info_list # <<>>
                         THEN InfoCsv(crypto_info_list) ELSE @,
                !.history = IF historical_data_list # <<>>
                            THEN HistoryCsv(historical_data_list) ELSE @]
    /\ metadata' =
          [cryptos_count |-> Len(crypto_info_list),
           days_of_history |-> DAYS_OF_HISTORY,
           data_points |-> IF historical_data_list # <<>>
                           THEN Len(Flatten(historical_data_list)) ELSE 0,
           cryptos |-> TOP_CRYPTOS]
    /\ cpc' = IF crypto_info_list # <<>> /\ historical_data_list # <<>>
              THEN "returned" ELSE "raised"
    /\ UNCHANGED <<pc, visited, crypto_info_list, historical_data_list, dbvars>>

\* python src/database.py is started once the collection has ended
StartDatabase ==
    /\ cpc \in {"returned", "raised"}
    /\ pc = "waiting"
    /\ pc' = "create_database"
    /\ UNCHANGED <<fs, cvars, dbvars>>

CollectorNext ==
    \/ Collect
    \/ Save
    \/ StartDatabase
    \/ Next

CollectorSpec == CollectorInit /\ [][CollectorNext]_vars

(***************************************************************************)
(* Properties                                                              *)
(***************************************************************************)

Last(s) == s[Len(s)]

\* stage has returned normally in this run
Completed(stage) ==
    \E k \in 1..Len(log) : log[k].stage = stage /\ log[k].ok

\* the stage that raised, if one did
FailedAt(stage) ==
    log # <<>> /\ Last(log).stage = stage /\ ~Last(log).ok

Raw_rows == fs.history.rows
Stored == db.tables.price_history
Metrics == db.tables.metrics

RawKey(r) == <<r.crypto_id, ToDate(r.date)>>

\* the float64 holding the integer n
FInt(n) == FDivInt(n, 1)

\* C1: the rows import_price_history inserts (the frame it returns and the
\* price_history table) never hold two rows with the same (crypto_id, date),
\* in no state of the run, and the insertion is never refused for a repeated
\* key.
C1_NoDuplicateObservations ==
    /\ DatedKeysUnique(Stored)
    /\ DatedKeysUnique(df_insert)
    /\ ~(FailedAt("import_price_history") /\ err = "IntegrityError")

\* the run has finished on an input that repeats a (crypto_id, day) key at
\* two different times of day
C1_Witness ==
    /\ pc = "done"
    /\ Stored # <<>>
    /\ \E i, j \in 1..Len(Raw_rows) :
          /\ i < j
          /\ RawKey(Raw_rows[i]) = RawKey(Raw_rows[j])
          /\ Raw_rows[i].date.tod # Raw_rows[j].date.tod

\* C2: once import_price_history has returned, every key of the raw input
\* is stored exactly once, with the price, market cap and volume of the last
\* raw record carrying that key, and no other key is stored.
C2_LastWriteWins ==
    Completed("import_price_history") =>
        /\ \A i \in 1..Len(Raw_rows) :
              Cardinality({j \in 1..Len(Stored) :
                              PriceKey(Stored[j]) = RawKey(Raw_rows[i])}) = 1
        /\ \A j \in 1..Len(Stored) :
              \E i \in 1..Len(Raw_rows) :
                 /\ RawKey(Raw_rows[i]) = PriceKey(Stored[j])
                 /\ \A l \in (i + 1)..Len(Raw_rows) :
                       RawKey(Raw_rows[l]) # RawKey(Raw_rows[i])
                 /\ Stored[j].price_usd = Raw_rows[i].price
                 /\ Stored[j].market_cap = Raw_rows[i].market_cap
                 /\ Stored[j].total_volume = Raw_rows[i].volume

\* a key fed twice with different prices is stored once, with the later price
C2_Witness ==
    /\ Completed("import_price_history")
    /\ \E i, j \in 1..Len(Raw_rows) :
          /\ i < j
          /\ RawKey(Raw_rows[i]) = RawKey(Raw_rows[j])
          /\ Raw_rows[i].price # Raw_rows[j].price
          /\ \A l \in (j + 1)..Len(Raw_rows) :
                RawKey(Raw_rows[l]) # RawKey(Raw_rows[j])
          /\ \E k \in 1..Len(Stored) :
                /\ PriceKey(Stored[k]) = RawKey(Raw_rows[j])
                /\ Stored[k].price_usd = Raw_rows[j].price

\* the stored observation is the earliest of its crypto
IsFirst(r) ==
    \A k \in 1..Len(Stored) :
        Stored[k].crypto_id = r.crypto_id => r.date <= Stored[k].date

\* C3: after calculate_metrics the metrics keys are the observation keys
\* minus the earliest date of each crypto, each once (prices >= 0, zero
\* included).
C3_MetricsKeys ==
    Completed("calculate_metrics") =>
        /\ DatedKeysUnique(Metrics)
        /\ {PriceKey(Metrics[k]) : k \in 1..Len(Metrics)}
             = {PriceKey(Stored[k]) : k \in {i \in 1..Len(Stored) : ~IsFirst(Stored[i])}}

\* the stored observation of the same crypto that immediately precedes r
Prev(r) ==
    CHOOSE p \in {Stored[k] : k \in 1..Len(Stored)} :
        /\ p.crypto_id = r.crypto_id
        /\ p.date < r.date
        /\ \A k \in 1..Len(Stored) :
              (Stored[k].crypto_id = r.crypto_id /\ Stored[k].date < r.date)
                  => Stored[k].date <= p.date

\* (cur - prev) / prev * 100 evaluated in float64 as written
FormulaChange(cur, prev) == FMul100(FDivInt(cur - prev, prev))

\* C4: every observation but the first of its crypto has a metrics row whose
\* daily_return is (price[i] - price[i-1]) / price[i-1] * 100 against the
\* immediately preceding stored row; the prices 100, 110, 99 on consecutive
\* dates give exactly 10 and -10.
C4_DailyReturn ==
    Completed("calculate_metrics") =>
        /\ \A k \in 1..Len(Stored) :
              ~IsFirst(Stored[k]) =>
                 \E m \in 1..Len(Metrics) :
                    /\ PriceKey(Metrics[m]) = PriceKey(Stored[k])
                    /\ Metrics[m].daily_return
                         = FormulaChange(Stored[k].price_usd, Prev(Stored[k]).price_usd)
        /\ Raw_rows = Series("bitcoin", <<100, 110, 99>>) =>
              /\ Len(Metrics) = 2
              /\ Metrics[1].date = 2 /\ Metrics[1].daily_return = FInt(10)
              /\ Metrics[2].date = 3 /\ Metrics[2].daily_return = FInt(-10)

\* the metrics rows of one crypto, by date ascending
MetricsOf(c) ==
    StableSort(SelectSeq(Metrics, LAMBDA m : m.crypto_id = c), DateLess)

\* C5: per crypto, by date ascending, volatility_7d is null on the first 6
\* metrics rows and non-null from the 7th on, volatility_30d null on the
\* first 29 and non-null from the 30th on, and calculate_metrics never
\* raises.
C5_VolatilityNulls ==
    /\ ~FailedAt("calculate_metrics")
    /\ Completed("calculate_metrics") =>
          \A c \in {CryptoIds[i] : i \in 1..Len(CryptoIds)} :
             \A k \in 1..Len(MetricsOf(c)) :
                /\ (MetricsOf(c)[k].volatility_7d.k = "null") <=> (k < Window7)
                /\ (MetricsOf(c)[k].volatility_30d.k = "null") <=> (k < Window30)

\* C6: when create_database has returned the three tables are empty,
\* whatever the store held, and create_database applied to any store the
\* program reaches, and again to its result, gives that same empty store.
C6_CreateDatabaseResets ==
    /\ (Len(log) = 1 /\ log[1].ok) => db = EmptyDb
    /\ create_database(db, TRUE).db = EmptyDb
    /\ create_database(create_database(db, TRUE).db, TRUE).db
         = create_database(db, TRUE).db

\* create_database has just returned on a store that a complete earlier run
\* had populated
C6_Witness ==
    /\ Len(log) = 1 /\ log[1].ok
    /\ old_db.tables.cryptocurrencies # <<>>
    /\ old_db.tables.price_history # <<>>
    /\ old_db.tables.metrics # <<>>
    /\ db = EmptyDb

LogInOrder ==
    /\ Len(log) <= Len(Stages)
    /\ \A i \in 1..Len(log) :
          log[i].stage = Stages[i] /\ (i < Len(log) => log[i].ok)

PcAfterLog ==
    pc = IF log # <<>> /\ ~Last(log).ok THEN "failed"
         ELSE IF Len(log) = Len(Stages) THEN "done"
         ELSE Stages[Len(log) + 1]

\* C7: in every run the stages are called in the order create_database,
\* import_cryptocurrencies, import_price_history, calculate_metrics,
\* verify_data, run_sample_queries, each once and only after the one before
\* has returned; metrics rows are written only after import_price_history
\* has returned, and no observation row is written once calculate_metrics
\* has been called.
C7_StrictStageOrder ==
    /\ [](LogInOrder /\ PcAfterLog)
    /\ [][(db'.tables.metrics # db.tables.metrics /\ db'.tables.metrics # <<>>)
             => (Completed("import_price_history")
                 /\ db'.tables.price_history = db.tables.price_history)]_vars
    /\ [][(db'.tables.price_history # db.tables.price_history
              /\ db'.tables.price_history # <<>>)
             => \A k \in 1..Len(log') : log'[k].stage # "calculate_metrics"]_vars

\* a run that went through all six stages and wrote metrics
C7_Witness ==
    /\ pc = "done"
    /\ Len(log) = Len(Stages)
    /\ Metrics # <<>>

\* C8: a stage that raises ends the run with the error re-raised, no later
\* stage is called (only a new invocation of main can follow), and the store
\* is left as the stages before it committed it.
C8_FailurePropagates ==
    [][/\ (log' # log /\ log' # <<>> /\ ~Last(log').ok) =>
             /\ pc' = "failed"
             /\ err' # "none"
             /\ Last(log').stage # "create_database" => db' = db
       /\ pc = "failed" => (run' = run + 1 /\ log' = <<>> /\ db' = db)
       /\ pc' = "failed" => err' # "none"]_vars

\* import_price_history raised after import_cryptocurrencies had committed
\* its rows, which are still there
C8_Witness ==
    /\ pc = "failed"
    /\ FailedAt("import_price_history")
    /\ err # "none"
    /\ db.tables.cryptocurrencies = InfoFrame(fs.info.rows)
    /\ db.tables.cryptocurrencies # <<>>

Malformed(csv, columns) ==
    \/ ~csv.exists
    \/ ~(columns \subseteq csv.columns)

BadDate == \E i \in 1..Len(Raw_rows) : ~Raw_rows[i].date.ok

\* C9: an import stage whose input file is absent, lacks a required column
\* or holds an unparseable date raises and leaves the store as it found it.
C9_InputErrorBeforeWrite ==
    [][(\/ pc = "import_cryptocurrencies" /\ Malformed(fs.info, InfoColumns)
        \/ pc = "import_price_history"
              /\ (Malformed(fs.history, HistoryColumns) \/ BadDate))
          => (pc' = "failed" /\ db' = db)]_vars

\* import_price_history raised on a date that follows a well-formed row, and
\* no observation was written
C9_Witness ==
    /\ FailedAt("import_price_history")
    /\ err = "ValueError"
    /\ Len(Raw_rows) >= 2
    /\ Raw_rows[1].date.ok
    /\ ~Raw_rows[2].date.ok
    /\ Stored = <<>>

\* C10: verify_data announces an operational database only when each of
\* the three tables holds rows, and it leaves the tables as they are.
C10_VerifyGate ==
    /\ report.verdict = "operational" =>
          /\ report.cryptocurrencies > 0
          /\ report.price_history > 0
          /\ report.metrics > 0
    /\ Completed("verify_data") =>
          /\ report.cryptocurrencies = Len(db.tables.cryptocurrencies)
          /\ report.price_history = Len(Stored)
          /\ report.metrics = Len(Metrics)

Reversed(s) == [i \in 1..Len(s) |-> s[Len(s) + 1 - i]] \o <<>>

\* the rows of one crypto, as a set
RowsOf(rows, c) == {rows[k] : k \in {i \in 1..Len(rows) : rows[i].crypto_id = c}}

\* the cryptos that have observations
Ids == {Stored[k].crypto_id : k \in 1..Len(Stored)}

\* the stores import_price_history builds from the raw histories of at
\* most two well-formed records
OtherStores ==
    {import_price_history(EmptyDb, HistoryFile(h)).db :
        h \in UNION {[1..n -> {r \in RawRecords : r.date.ok}] : n \in 0..2}}

\* stores that agree with store on the observations of crypto c: the rows of
\* the other cryptos changed, the rows of two more cryptos added (one of
\* them processed before c), and the rows stored in the opposite order
Changed(store, c) ==
    [store EXCEPT
        !.tables.metrics = <<>>,
        !.tables.price_history =
            [i \in 1..Len(store.tables.price_history) |->
                IF store.tables.price_history[i].crypto_id = c
                THEN store.tables.price_history[i]
                ELSE [store.tables.price_history[i] EXCEPT
                        !.date = @ + 1, !.price_usd = @ + 7,
                        !.total_volume = 3 * @ + 1]]]

Added(store) ==
    [store EXCEPT
        !.tables.metrics = <<>>,
        !.tables.price_history =
            <<[crypto_id |-> "cosmos", date |-> 2, price_usd |-> 7,
               market_cap |-> 70, total_volume |-> 5],
              [crypto_id |-> "algorand", date |-> 1, price_usd |-> 3,
               market_cap |-> 30, total_volume |-> 0]>>
            \o Reversed(store.tables.price_history)
            \o <<[crypto_id |-> "algorand", date |-> 2, price_usd |-> 0,
                  market_cap |-> 30, total_volume |-> 9],
                 [crypto_id |-> "cosmos", date |-> 1, price_usd |-> 8,
                  market_cap |-> 70, total_volume |-> 5]>>]

Variants(store, c) ==
    {Changed(store, c), Added(store), Added(Changed(store, c))}

\* the store without the observations of the cryptos other than c
OnlyAsset(store, c) ==
    [store EXCEPT !.tables.price_history =
        SelectSeq(store.tables.price_history, LAMBDA r : r.crypto_id = c)]

\* C11: when calculate_metrics has returned, the metrics rows of a crypto
\* are those calculate_metrics produces on any other store that holds the
\* same observations for that crypto, whatever it holds for the other
\* cryptos and in whatever order (and on the store holding that crypto
\* alone).
C11_PerAssetIndependence ==
    pc = "verify_data" =>
        \A c \in Ids :
           /\ RowsOf(calculate_metrics(OnlyAsset([db EXCEPT !.tables.metrics = <<>>], c))
                        .db.tables.metrics, c)
                = RowsOf(Metrics, c)
           /\ \A o \in OtherStores \cup Variants(db, c) :
                 RowsOf(o.tables.price_history, c) = RowsOf(Stored, c)
                    => RowsOf(calculate_metrics(o).db.tables.metrics, c)
                         = RowsOf(Metrics, c)

\* metrics were computed for bitcoin on a store that also holds ethereum
\* rows, and a compared store has the same bitcoin rows and other ethereum
\* rows
C11_Witness ==
    /\ pc = "verify_data"
    /\ RowsOf(Metrics, "bitcoin") # {}
    /\ RowsOf(Stored, "ethereum") # {}
    /\ \E o \in Variants(db, "bitcoin") :
          /\ RowsOf(o.tables.price_history, "bitcoin") = RowsOf(Stored, "bitcoin")
          /\ RowsOf(o.tables.price_history, "ethereum") # RowsOf(Stored, "ethereum")
          /\ RowsOf(o.tables.price_history, "ethereum") # {}

\* C12: the frame import_price_history hands to the store is ascending in
\* (crypto_id, date), whatever the order of the raw input.
C12_SortedInsertion ==
    /\ \A i, j \in 1..Len(df_insert) :
          i < j => KeyLess(df_insert[i], df_insert[j])
    /\ Completed("import_price_history") =>
          \A i, j \in 1..Len(Stored) : i < j => KeyLess(Stored[i], Stored[j])

\* the four computed values of a sequence of metrics rows, by position
Values(rows) ==
    [i \in 1..Len(rows) |->
        <<rows[i].daily_return, rows[i].volatility_7d, rows[i].volatility_30d,
          rows[i].volume_change_24h>>]

Reverse(s) == [i \in 1..Len(s) |-> s[Len(s) + 1 - i]]

OtherId(c) == IF c = "bitcoin" THEN "ethereum" ELSE "bitcoin"

\* strictly increasing maps of the dates: every second day, and a week's gap
\* after the first day
EverySecondDay(d) == 2 * d
WeekGap(d) == IF d > 1 THEN d + 7 ELSE d

\* the store whose observations are those of store with the two cryptos
\* exchanged, each date d moved to Gap(d), stored in the opposite order
Regap(store, Gap(_)) ==
    [store EXCEPT
        !.tables.metrics = <<>>,
        !.tables.price_history =
            Reverse([i \in 1..Len(store.tables.price_history) |->
                        [store.tables.price_history[i] EXCEPT
                            !.crypto_id = OtherId(@), !.date = Gap(@)]])]

\* the metrics values calculate_metrics stores for crypto c, by date ascending
ValuesIn(store, c) ==
    Values(StableSort(SelectSeq(calculate_metrics(store).db.tables.metrics,
                                LAMBDA m : m.crypto_id = c), DateLess))

\* C14: when calculate_metrics has returned, the values it stored for a
\* crypto, position by position in date order, are those it stores for a
\* crypto with the same date-ordered prices and volumes whose dates have
\* gaps and whose rows were stored in the opposite order.
C14_RowPosition ==
    pc = "verify_data" =>
        \A c \in Ids :
           /\ Values(MetricsOf(c)) = ValuesIn(Regap(db, EverySecondDay), OtherId(c))
           /\ Values(MetricsOf(c)) = ValuesIn(Regap(db, WeekGap), OtherId(c))

\* metrics were computed on at least Window7 returns of a series stored on
\* consecutive days, the last with a volatility
C14_Witness ==
    /\ pc = "verify_data"
    /\ Len(MetricsOf("bitcoin")) >= Window7
    /\ MetricsOf("bitcoin")[Len(MetricsOf("bitcoin"))].volatility_7d.k = "std"
    /\ \A i \in 1..Len(Stored) : Stored[i].date = i

\* C15: every step of a stage after create_database leaves the tables of
\* the other stages as they are: import_cryptocurrencies changes only
\* cryptocurrencies, import_price_history only price_history,
\* calculate_metrics only metrics, verify_data and run_sample_queries (which
\* read the view) change no table, and once import_cryptocurrencies has
\* returned the asset rows stay as imported for the rest of the run.
C15_StageFrames ==
    [][/\ pc = "import_cryptocurrencies" =>
             /\ db'.tables.price_history = db.tables.price_history
             /\ db'.tables.metrics = db.tables.metrics
       /\ pc = "import_price_history" =>
             /\ db'.tables.cryptocurrencies = db.tables.cryptocurrencies
             /\ db'.tables.metrics = db.tables.metrics
       /\ pc = "calculate_metrics" =>
             /\ db'.tables.cryptocurrencies = db.tables.cryptocurrencies
             /\ db'.tables.price_history = db.tables.price_history
       /\ pc \in {"verify_data", "run_sample_queries"} => db' = db
       /\ (Completed("import_cryptocurrencies") /\ log' # <<>>) =>
             /\ db'.tables.cryptocurrencies = db.tables.cryptocurrencies
             /\ db'.tables.cryptocurrencies = InfoFrame(fs.info.rows)]_vars

\* a complete run whose observations were stored out of key order and whose
\* three tables hold rows
C15_Witness ==
    /\ pc = "done"
    /\ db.tables.cryptocurrencies # <<>>
    /\ Metrics # <<>>
    /\ Stored # ReadPrices(db)

\* the stored observations of the latest stored date
LatestStored ==
    {Stored[k] : k \in {i \in 1..Len(Stored) : IsMaxDate(db, Stored[i].date)}}

\* every crypto observed on the latest date is in cryptocurrencies, and the
\* market caps of that date are not all zero
Tracked ==
    /\ \A r \in LatestStored :
          \E a \in 1..Len(db.tables.cryptocurrencies) :
             db.tables.cryptocurrencies[a].crypto_id = r.crypto_id
    /\ \E r \in LatestStored : r.market_cap > 0

\* C13: on a store whose latest-date cryptos are all tracked, both
\* latest-date queries return exactly the cryptos observed on the latest
\* stored date in descending order of market cap, and the dominance
\* percentage of each is its market cap over the sum of the market caps of
\* the returned rows, times 100, to two decimals.
C13_LatestDateQueries ==
    /\ (top5 # NoResult /\ Tracked) =>
          /\ {<<top5[i].crypto_id, top5[i].market_cap>> : i \in 1..Len(top5)}
               = {<<r.crypto_id, r.market_cap>> : r \in LatestStored}
          /\ \A i, j \in 1..Len(top5) :
                i < j => top5[i].market_cap >= top5[j].market_cap
    /\ (dominance # NoResult /\ Tracked) =>
          /\ {<<dominance[i].crypto_id, dominance[i].market_cap>> :
                 i \in 1..Len(dominance)}
               = {<<r.crypto_id, r.market_cap>> : r \in LatestStored}
          /\ \A i, j \in 1..Len(dominance) :
                i < j => dominance[i].market_cap >= dominance[j].market_cap
          /\ \A i \in 1..Len(dominance) :
                dominance[i].dominance_pct
                  = DominancePct(dominance[i].market_cap,
                                 SumCaps({[crypto_id |-> dominance[k].crypto_id,
                                           market_cap |-> dominance[k].market_cap] :
                                             k \in 1..Len(dominance)}))

CollectionEnded == cpc \in {"returned", "raised"}

\* C16: when collect_all_data has ended, every crypto_id of the written
\* price_history.csv is an id of the written crypto_info.csv, and after
\* import_price_history every stored observation belongs to a crypto of the
\* cryptocurrencies table.
C16_CollectedIdsKnown ==
    /\ (CollectionEnded /\ fs.history.exists) =>
          /\ fs.info.exists
          /\ \A i \in 1..Len(fs.history.rows) :
                \E a \in 1..Len(fs.info.rows) :
                   fs.info.rows[a].id = fs.history.rows[i].crypto_id
    /\ (CollectionEnded /\ Completed("import_price_history")) =>
          \A i \in 1..Len(Stored) :
             \E a \in 1..Len(db.tables.cryptocurrencies) :
                db.tables.cryptocurrencies[a].crypto_id = Stored[i].crypto_id

\* C17: collect_all_data never raises; when it has ended it has visited
\* each crypto of TOP_CRYPTOS once, written metadata.json and returned the
\* two frames.
C17_CollectorReturns ==
    /\ cpc # "raised"
    /\ visited <= Len(TOP_CRYPTOS)
    /\ cpc \in {"save", "returned"} => visited = Len(TOP_CRYPTOS)
    /\ cpc = "returned" =>
          /\ metadata.cryptos = TOP_CRYPTOS
          /\ metadata.cryptos_count = Len(crypto_info_list)

====
